---- MODULE Spec2Model ----
(* A model of nd.py: the Plan class (graph construction by add_node and the   *)
(* CPM computation of build) as a state machine.                             *)
(*                                                                          *)
(* Node objects live in the heap `objs` (a sequence of records, indexed by   *)
(* creation order); Plan.nodes is the sequence `nodes` of heap indices.  A   *)
(* Node that _create_node linked to a predecessor before failing stays in    *)
(* the heap although it is not in Plan.nodes.                                *)
EXTENDS Integers, Sequences, FiniteSets, TLC

\* ---------------------------------------------------------------- bounds
MaxNodes == 4
MaxDur == 2
MaxPreds == 2
MaxBuilds == 2

\* Names are only ever compared for equality (nd.py lines 61 and 74), so a
\* name that is new to the Plan is taken as the first unused one of the pool,
\* and the one after it serves as a name that was never added.
Pool == <<"A", "B", "C", "D", "E", "F", "G", "H">>

VARIABLES objs, nodes, node_id, critical_path_nodes, nodes_per_level,
          level_nodes, max_node_level, err, last, builds, fwd_log

vars == <<objs, nodes, node_id, critical_path_nodes, nodes_per_level,
          level_nodes, max_node_level, err, last, builds, fwd_log>>

\* ---------------------------------------------------------------- helpers
Range(s) == {s[i] : i \in 1..Len(s)}

Max(a, b) == IF a > b THEN a ELSE b

SeqsUpTo(S, n) == UNION {[1..k -> S] : k \in 0..n}

\* dict.get(key, default) and dict[key] = value
DictGet(d, k, default) == IF k \in DOMAIN d THEN d[k] ELSE default

DictSet(d, k, v) == [x \in (DOMAIN d) \cup {k} |-> IF x = k THEN v ELSE d[x]]

EmptyDict == [x \in {} |-> 0]

\* ---------------------------------------------------------------- Node
Node(name, duration) ==
    [id |-> 0, name |-> name, duration |-> duration,
     prev_nodes |-> <<>>, next_nodes |-> <<>>,
     free_float |-> 0, total_float |-> 0,
     early_start_time |-> 0, early_finish_time |-> 0,
     late_start_time |-> 0, late_finish_time |-> 0, level |-> 0]

add_prev_node(o, self, node) ==
    [o EXCEPT ![self].prev_nodes = Append(@, node)]

add_next_node(o, self, node) ==
    [o EXCEPT ![self].next_nodes = Append(@, node)]

set_id(o, self, id) == [o EXCEPT ![self].id = id]

\* ---------------------------------------------------------------- Plan
\* The heap index of the first node of Plan.nodes with that name, 0 for None.
find_node(o, ns, name) ==
    LET hits == {i \in 1..Len(ns) : o[ns[i]].name = name}
    IN  IF hits = {} THEN 0
        ELSE ns[CHOOSE i \in hits : \A j \in hits : i <= j]

\* The loop of _create_node over preceding_node_names, from position i on.
\* pn.add_next_node on pn = None raises AttributeError and ends the loop.
RECURSIVE create_node_loop(_, _, _, _, _)
create_node_loop(o, ns, node, pnames, i) ==
    IF i > Len(pnames) THEN [objs |-> o, raised |-> FALSE]
    ELSE LET pn == find_node(o, ns, pnames[i])
         IN  IF pn = 0 THEN [objs |-> o, raised |-> TRUE]
             ELSE create_node_loop(
                      add_next_node(add_prev_node(o, node, pn), pn, node),
                      ns, node, pnames, i + 1)

\* A Node object no list refers to is freed.
Collect(o, ns) ==
    LET n == Len(o)
    IN  IF n > 0 /\ n \notin Range(ns)
           /\ \A k \in 1..(n - 1) : n \notin Range(o[k].next_nodes)
        THEN SubSeq(o, 1, n - 1)
        ELSE o

_create_node(o, ns, nid, name, duration, pnames) ==
    LET node == Len(o) + 1
        r == create_node_loop(Append(o, Node(name, duration)), ns, node, pnames, 1)
    IN  IF r.raised
        THEN [objs |-> Collect(r.objs, ns), node_id |-> nid, node |-> 0,
              raised |-> TRUE]
        ELSE [objs |-> set_id(r.objs, node, nid + 1), node_id |-> nid + 1,
              node |-> node, raised |-> FALSE]

\* An exception leaves add_node with the Plan as it is at that point.  No caller
\* catches it (create_plan_from_table and main, lines 236-259, let it end the
\* program), so err # "none" is a final state: no operation acts on the Plan.
Raise(e) ==
    /\ err' = e
    /\ UNCHANGED <<nodes, node_id, critical_path_nodes, nodes_per_level,
                   level_nodes, max_node_level, last, builds, fwd_log>>

add_node(name, duration, pnames) ==
    /\ err = "none"
    /\ IF name \in Range(pnames)
       THEN Raise("DiagramError") /\ UNCHANGED objs
       ELSE IF find_node(objs, nodes, name) # 0
       THEN Raise("DiagramError") /\ UNCHANGED objs
       ELSE IF duration <= 0
       THEN Raise("DiagramError") /\ UNCHANGED objs
       ELSE LET r == _create_node(objs, nodes, node_id, name, duration, pnames)
            IN  IF r.raised
                THEN Raise("AttributeError") /\ objs' = r.objs
                ELSE /\ objs' = r.objs
                     /\ node_id' = r.node_id
                     /\ nodes' = Append(nodes, r.node)
                     /\ last' = "add_node"
                     /\ UNCHANGED <<critical_path_nodes, nodes_per_level,
                                    level_nodes, max_node_level, err, builds,
                                    fwd_log>>

\* ---------------------------------------------------------------- forward
\* Variant of forward_parents_loop: the last parent's finish time is taken,
\* not the greatest.
RECURSIVE forward_parents_loop_last(_, _, _, _, _)
forward_parents_loop_last(o, parents, i, max_early_finish_time, reads) ==
    IF i > Len(parents)
    THEN [objs |-> o, max |-> max_early_finish_time, reads |-> reads]
    ELSE LET parent == parents[i]
             ef == o[parent].early_start_time + o[parent].duration
             o1 == [o EXCEPT ![parent].early_finish_time = ef]
         IN  forward_parents_loop_last(o1, parents, i + 1, ef,
                                       Append(reads, [parent |-> parent, ef |-> ef]))

\* The loop over node.prev_nodes (lines 95-98), from position i on: every
\* parent's early_finish_time is rewritten from its current early_start_time.
RECURSIVE forward_parents_loop(_, _, _, _, _)
forward_parents_loop(o, parents, i, max_early_finish_time, reads) ==
    IF i > Len(parents)
    THEN [objs |-> o, max |-> max_early_finish_time, reads |-> reads]
    ELSE LET parent == parents[i]
             ef == o[parent].early_start_time + o[parent].duration
             o1 == [o EXCEPT ![parent].early_finish_time = ef]
         IN  forward_parents_loop(o1, parents, i + 1,
                                  Max(ef, max_early_finish_time),
                                  Append(reads, [parent |-> parent, ef |-> ef]))

\* st = [objs, log]; log gets one entry per call: the node computed and the
\* predecessor values it was computed from.
RECURSIVE calculate_forward_from_node(_, _)
RECURSIVE forward_children_loop(_, _, _)
calculate_forward_from_node(st, node) ==
    LET o == st.objs
        o1 == [o EXCEPT ![node].early_finish_time =
                            o[node].early_start_time + o[node].duration,
                        ![node].early_start_time = 0]
        pl == forward_parents_loop(o1, o1[node].prev_nodes, 1, 0, <<>>)
        o2 == IF o1[node].prev_nodes # <<>>
              THEN [pl.objs EXCEPT ![node].early_start_time = pl.max,
                                   ![node].early_finish_time =
                                       pl.max + o1[node].duration]
              ELSE o1
        reads == IF o1[node].prev_nodes # <<>> THEN pl.reads ELSE <<>>
        st2 == [objs |-> o2,
                log |-> Append(st.log, [node |-> node, reads |-> reads])]
    IN  forward_children_loop(st2, o2[node].next_nodes, 1)

forward_children_loop(st, children, i) ==
    IF i > Len(children) THEN st
    ELSE forward_children_loop(calculate_forward_from_node(st, children[i]),
                               children, i + 1)

RECURSIVE calculate_forward_loop(_, _, _)
calculate_forward_loop(st, ns, i) ==
    IF i > Len(ns) THEN st
    ELSE calculate_forward_loop(calculate_forward_from_node(st, ns[i]), ns, i + 1)

calculate_forward(o, ns) ==
    calculate_forward_loop([objs |-> o, log |-> <<>>], ns, 1)

\* ---------------------------------------------------------------- backward
\* Variant of min_late_start_loop: the comparison is reversed.
RECURSIVE min_late_start_loop_reversed(_, _, _, _)
min_late_start_loop_reversed(o, children, i, min_late_start_time) ==
    IF i > Len(children) THEN min_late_start_time
    ELSE min_late_start_loop_reversed(o, children, i + 1,
             IF min_late_start_time < o[children[i]].late_start_time
             THEN o[children[i]].late_start_time
             ELSE min_late_start_time)

RECURSIVE min_late_start_loop(_, _, _, _)
min_late_start_loop(o, children, i, min_late_start_time) ==
    IF i > Len(children) THEN min_late_start_time
    ELSE min_late_start_loop(o, children, i + 1,
             IF min_late_start_time > o[children[i]].late_start_time
             THEN o[children[i]].late_start_time
             ELSE min_late_start_time)

calculate_backward_from_node(o, node) ==
    LET o1 == [o EXCEPT ![node].late_finish_time = o[node].early_finish_time,
                        ![node].late_start_time =
                            o[node].early_finish_time - o[node].duration]
        children == o1[node].next_nodes
    IN  IF children # <<>>
        THEN LET m == min_late_start_loop(o1, children, 1,
                                          o1[children[1]].late_start_time)
             IN  [o1 EXCEPT ![node].late_finish_time = m,
                            ![node].late_start_time = m - o1[node].duration]
        ELSE o1

\* for node in reversed(self.nodes): position i runs from Len(ns) down to 1.
RECURSIVE calculate_backward_loop(_, _, _)
calculate_backward_loop(o, ns, i) ==
    IF i < 1 THEN o
    ELSE calculate_backward_loop(calculate_backward_from_node(o, ns[i]), ns, i - 1)

calculate_backward(o, ns) == calculate_backward_loop(o, ns, Len(ns))

\* ---------------------------------------------------------------- floats
\* Variant of min_early_start_loop: the comparison is reversed.
RECURSIVE min_early_start_loop_reversed(_, _, _, _)
min_early_start_loop_reversed(o, ns, i, min_start) ==
    IF i > Len(ns) THEN min_start
    ELSE min_early_start_loop_reversed(o, ns, i + 1,
             IF min_start < o[ns[i]].early_start_time
             THEN o[ns[i]].early_start_time
             ELSE min_start)

RECURSIVE min_early_start_loop(_, _, _, _)
min_early_start_loop(o, ns, i, min_start) ==
    IF i > Len(ns) THEN min_start
    ELSE min_early_start_loop(o, ns, i + 1,
             IF min_start > o[ns[i]].early_start_time
             THEN o[ns[i]].early_start_time
             ELSE min_start)

get_min_early_start_time(o, ns) ==
    IF ns = <<>> THEN 0
    ELSE min_early_start_loop(o, ns, 1, o[ns[1]].early_start_time)

\* Variant of calculate_buffers_node: the operands of total_float are swapped.
calculate_buffers_node_swapped(o, node) ==
    LET tf == o[node].early_start_time - o[node].late_start_time
        ff == IF o[node].next_nodes = <<>> THEN 0
              ELSE get_min_early_start_time(o, o[node].next_nodes)
                       - o[node].early_finish_time
    IN  [o EXCEPT ![node].total_float = tf, ![node].free_float = ff]

calculate_buffers_node(o, node) ==
    LET tf == o[node].late_start_time - o[node].early_start_time
        ff == IF o[node].next_nodes = <<>> THEN 0
              ELSE get_min_early_start_time(o, o[node].next_nodes)
                       - o[node].early_finish_time
    IN  [o EXCEPT ![node].total_float = tf, ![node].free_float = ff]

RECURSIVE calculate_buffers_loop(_, _, _)
calculate_buffers_loop(o, ns, i) ==
    IF i > Len(ns) THEN o
    ELSE calculate_buffers_loop(calculate_buffers_node(o, ns[i]), ns, i + 1)

calculate_buffers(o, ns) == calculate_buffers_loop(o, ns, 1)

\* ---------------------------------------------------------------- levels
\* st = [objs, max]: the heap and Plan.max_node_level.
RECURSIVE calculate_child_node_levels(_, _, _)
RECURSIVE child_levels_loop(_, _, _, _)
calculate_child_node_levels(st, parent, level) ==
    child_levels_loop(st, st.objs[parent].next_nodes, 1, level)

\* Variant of child_levels_loop: the level of the current visit is stored
\* whether or not it is greater than the level the node has.
RECURSIVE child_levels_loop_overwrite(_, _, _, _)
child_levels_loop_overwrite(st, children, i, level) ==
    IF i > Len(children) THEN st
    ELSE LET node == children[i]
             o1 == [st.objs EXCEPT ![node].level = level]
             m1 == IF st.max < level THEN level ELSE st.max
             st1 == calculate_child_node_levels([objs |-> o1, max |-> m1],
                                                node, level + 1)
         IN  child_levels_loop_overwrite(st1, children, i + 1, level)

child_levels_loop(st, children, i, level) ==
    IF i > Len(children) THEN st
    ELSE LET node == children[i]
             lv == IF st.objs[node].level < level THEN level
                   ELSE st.objs[node].level
             o1 == [st.objs EXCEPT ![node].level = lv]
             m1 == IF st.max < lv THEN lv ELSE st.max
             st1 == calculate_child_node_levels([objs |-> o1, max |-> m1],
                                                node, level + 1)
         IN  child_levels_loop(st1, children, i + 1, level)

RECURSIVE calculate_node_levels_loop(_, _, _)
calculate_node_levels_loop(st, ns, i) ==
    IF i > Len(ns) THEN st
    ELSE IF st.objs[ns[i]].prev_nodes # <<>>
    THEN calculate_node_levels_loop(st, ns, i + 1)
    ELSE calculate_node_levels_loop(
             calculate_child_node_levels(
                 [st EXCEPT !.objs[ns[i]].level = 0], ns[i], 1),
             ns, i + 1)

calculate_node_levels(o, ns, maxlv) ==
    calculate_node_levels_loop([objs |-> o, max |-> maxlv], ns, 1)

\* st = [level_nodes, nodes_per_level]
RECURSIVE collect_level_nodes_loop(_, _, _, _)
collect_level_nodes_loop(st, o, ns, i) ==
    IF i > Len(ns) THEN st
    ELSE LET lv == o[ns[i]].level
             list == Append(DictGet(st.level_nodes, lv, <<>>), ns[i])
         IN  collect_level_nodes_loop(
                 [level_nodes |-> DictSet(st.level_nodes, lv, list),
                  nodes_per_level |->
                      DictSet(st.nodes_per_level, lv,
                              DictGet(st.nodes_per_level, lv, 0) + 1)],
                 o, ns, i + 1)

collect_level_nodes(ln, npl, o, ns) ==
    collect_level_nodes_loop([level_nodes |-> ln, nodes_per_level |-> npl],
                             o, ns, 1)

\* ---------------------------------------------------------------- critical path
\* Variant of sort_insert: an element is placed before the elements of its
\* own key (the sort is not stable).
RECURSIVE sort_insert_unstable(_, _, _)
sort_insert_unstable(o, sorted, x) ==
    IF sorted = <<>> THEN <<x>>
    ELSE IF o[sorted[Len(sorted)]].level < o[x].level
    THEN Append(sorted, x)
    ELSE Append(sort_insert_unstable(o, SubSeq(sorted, 1, Len(sorted) - 1), x),
                sorted[Len(sorted)])

\* list.sort(key=level) is a stable sort: an element is placed behind every
\* element of a key not greater than its own.
RECURSIVE sort_insert(_, _, _)
sort_insert(o, sorted, x) ==
    IF sorted = <<>> THEN <<x>>
    ELSE IF o[sorted[Len(sorted)]].level <= o[x].level
    THEN Append(sorted, x)
    ELSE Append(sort_insert(o, SubSeq(sorted, 1, Len(sorted) - 1), x),
                sorted[Len(sorted)])

RECURSIVE sort_by_level_loop(_, _, _, _)
sort_by_level_loop(o, s, i, sorted) ==
    IF i > Len(s) THEN sorted
    ELSE sort_by_level_loop(o, s, i + 1, sort_insert(o, sorted, s[i]))

sort_by_level(o, s) == sort_by_level_loop(o, s, 1, <<>>)

IsCritical(o, node) == o[node].total_float = 0

collect_critical_path_nodes(o, ns) ==
    sort_by_level(o, SelectSeq(ns, LAMBDA node : IsCritical(o, node)))

\* ---------------------------------------------------------------- build
\* build() may be called on any Plan, more than once, and add_node may follow
\* it; builds counts the calls and bounds them.  fwd_log is the record of the
\* calls of calculate_forward_from_node of the latest forward pass.
build ==
    /\ err = "none"
    /\ builds < MaxBuilds
    /\ LET fw == calculate_forward(objs, nodes)
           o2 == calculate_backward(fw.objs, nodes)
           o3 == calculate_buffers(o2, nodes)
           lv == calculate_node_levels(o3, nodes, max_node_level)
           cl == collect_level_nodes(level_nodes, nodes_per_level, lv.objs, nodes)
       IN  /\ objs' = lv.objs
           /\ max_node_level' = lv.max
           /\ level_nodes' = cl.level_nodes
           /\ nodes_per_level' = cl.nodes_per_level
           /\ critical_path_nodes' = collect_critical_path_nodes(lv.objs, nodes)
           /\ fwd_log' = fw.log
    /\ builds' = builds + 1
    /\ last' = "build"
    /\ UNCHANGED <<nodes, node_id, err>>

\* ---------------------------------------------------------------- machine
Init ==
    /\ objs = <<>>
    /\ nodes = <<>>
    /\ node_id = 0
    /\ critical_path_nodes = <<>>
    /\ nodes_per_level = EmptyDict
    /\ level_nodes = EmptyDict
    /\ max_node_level = 0
    /\ err = "none"
    /\ last = "init"
    /\ builds = 0
    /\ fwd_log = <<>>

\* The names an add_node call may mention: those of the Plan, the first
\* unused one (a new task) and the next (a name that was never added).
KnownNames == {Pool[i] : i \in 1..Len(nodes)}

FreshName == Pool[Len(nodes) + 1]

UnknownName == Pool[Len(nodes) + 2]

AddNode ==
    /\ Len(nodes) < MaxNodes
    /\ \E name \in KnownNames \cup {FreshName} :
       \E duration \in 0..MaxDur :
       \E pnames \in SeqsUpTo(KnownNames \cup {FreshName, UnknownName}, MaxPreds) :
           add_node(name, duration, pnames)

Next == AddNode \/ build

Spec == Init /\ [][Next]_vars

\* ================================================================ properties
Tasks == Range(nodes)

Preds(t) == Range(objs[t].prev_nodes)

Succs(t) == Range(objs[t].next_nodes)

SetMax(S) == CHOOSE x \in S : \A y \in S : y <= x

SetMin(S) == CHOOSE x \in S : \A y \in S : x <= y

PosOf(t) == CHOOSE i \in 1..Len(nodes) : nodes[i] = t

\* The state right after a build() that returned.
Built == last = "build" /\ err = "none"

\* Every add_node call so far returned a task: no Node outside Plan.nodes.
OnlySuccessfulAdds == err = "none" /\ \A k \in 1..Len(objs) : k \in Tasks

\* Length in edges of the longest path from a source to t.
RECURSIVE Depth(_)
Depth(t) == IF Preds(t) = {} THEN 0 ELSE 1 + SetMax({Depth(p) : p \in Preds(t)})

\* C1: an add_node call whose predecessor list has a name that is not the
\* name of a task of the Plan raises the diagram-definition error
\* (DiagramError), and the Plan's task list does not gain the task.
C1_UnknownPredecessorRaisesDiagramError ==
    [][\A name \in KnownNames \cup {FreshName} :
       \A duration \in 0..MaxDur :
       \A pnames \in SeqsUpTo(KnownNames \cup {FreshName, UnknownName}, MaxPreds) :
           (/\ add_node(name, duration, pnames)
            /\ \E i \in 1..Len(pnames) : find_node(objs, nodes, pnames[i]) = 0)
           => (err' = "DiagramError" /\ nodes' = nodes)]_vars

\* C2: after build(), earlyStart is 0 for a task without predecessors and
\* the maximum earlyFinish of its predecessors otherwise, earlyFinish is
\* earlyStart + duration, and along every edge the successor starts no
\* earlier than the predecessor finishes.
C2_ForwardPass ==
    (Built /\ OnlySuccessfulAdds) =>
        \A t \in Tasks :
            /\ objs[t].early_start_time =
                   (IF Preds(t) = {} THEN 0
                    ELSE SetMax({objs[p].early_finish_time : p \in Preds(t)}))
            /\ objs[t].early_finish_time =
                   objs[t].early_start_time + objs[t].duration
            /\ \A p \in Preds(t) :
                   objs[t].early_start_time >= objs[p].early_finish_time

C2_Witness ==
    /\ Built /\ OnlySuccessfulAdds
    /\ \E t \in Tasks : \E p, q \in Preds(t) :
           /\ objs[p].early_finish_time < objs[q].early_finish_time
           /\ objs[p].early_start_time > 0
           /\ objs[t].early_start_time = objs[q].early_finish_time

\* C3: after build(), lateFinish is the task's own earlyFinish for a task
\* without successors and the minimum lateStart of its successors otherwise,
\* and lateStart is lateFinish - duration; this also with several sinks of
\* different earlyFinish.
C3_BackwardPass ==
    (Built /\ OnlySuccessfulAdds) =>
        \A t \in Tasks :
            /\ objs[t].late_finish_time =
                   (IF Succs(t) = {} THEN objs[t].early_finish_time
                    ELSE SetMin({objs[s].late_start_time : s \in Succs(t)}))
            /\ objs[t].late_start_time =
                   objs[t].late_finish_time - objs[t].duration

C3_Witness ==
    /\ Built /\ OnlySuccessfulAdds
    /\ \E s1, s2 \in Tasks :
           /\ Succs(s1) = {} /\ Succs(s2) = {}
           /\ objs[s1].early_finish_time # objs[s2].early_finish_time
           /\ objs[s1].late_finish_time = objs[s1].early_finish_time
           /\ objs[s2].late_finish_time = objs[s2].early_finish_time
    /\ \E t \in Tasks : \E a, b \in Succs(t) :
           objs[a].late_start_time < objs[b].late_start_time

\* C4: after build(), every task's totalFloat is lateStart - earlyStart and
\* is not negative.
C4_TotalFloatNonNegative ==
    (Built /\ OnlySuccessfulAdds) =>
        \A t \in Tasks :
            /\ objs[t].total_float =
                   objs[t].late_start_time - objs[t].early_start_time
            /\ objs[t].total_float >= 0

C4_Witness ==
    /\ Built /\ OnlySuccessfulAdds
    /\ \E t \in Tasks : objs[t].total_float > 0 /\ Succs(t) # {}

\* C5: after build(), every task's level is the number of edges of the
\* longest path reaching it from a source, a successor's level is greater
\* than its predecessor's, and the Plan's maximum level is the largest level.
C5_Levels ==
    (Built /\ OnlySuccessfulAdds) =>
        /\ \A t \in Tasks :
               /\ objs[t].level = Depth(t)
               /\ \A s \in Succs(t) : objs[s].level > objs[t].level
        /\ max_node_level =
               (IF Tasks = {} THEN 0 ELSE SetMax({objs[t].level : t \in Tasks}))

C5_Witness ==
    /\ Built /\ OnlySuccessfulAdds
    /\ \E t \in Tasks : \E p, q \in Preds(t) :
           /\ objs[p].level < objs[q].level
           /\ objs[t].level = objs[q].level + 1
           /\ max_node_level = objs[t].level

\* C6: after build(), the critical-path sequence holds exactly the tasks of
\* totalFloat 0, each once, by level ascending and, within a level, in
\* insertion order.
C6_CriticalPath ==
    (Built /\ OnlySuccessfulAdds) =>
        /\ Range(critical_path_nodes) =
               {t \in Tasks : objs[t].total_float = 0}
        /\ \A i, j \in 1..Len(critical_path_nodes) :
               i < j =>
                   LET a == critical_path_nodes[i]
                       b == critical_path_nodes[j]
                   IN  /\ a # b
                       /\ \/ objs[a].level < objs[b].level
                          \/ /\ objs[a].level = objs[b].level
                             /\ PosOf(a) < PosOf(b)

C6_Witness ==
    /\ Built /\ OnlySuccessfulAdds
    /\ \E t \in Tasks : objs[t].total_float # 0
    /\ \E i, j \in 1..Len(critical_path_nodes) :
           /\ i < j
           /\ objs[critical_path_nodes[i]].level =
                  objs[critical_path_nodes[j]].level
    /\ \E i, j \in 1..Len(critical_path_nodes) :
           /\ i < j
           /\ PosOf(critical_path_nodes[i]) > PosOf(critical_path_nodes[j])

\* C7: a second build() on a Plan not modified since the first one leaves
\* every task's scheduling fields and the Plan's derived data (level buckets,
\* per-level counts, maximum level, critical-path sequence) as the first
\* build left them.
C7_BuildIdempotent ==
    [][(Built /\ builds' = builds + 1) =>
           /\ objs' = objs
           /\ level_nodes' = level_nodes
           /\ nodes_per_level' = nodes_per_level
           /\ max_node_level' = max_node_level
           /\ critical_path_nodes' = critical_path_nodes]_vars

\* Every reference of a task of the Plan is to a task of the Plan, and mutual.
LinksResolve(o, ns) ==
    \A t \in Range(ns) :
        /\ \A p \in Range(o[t].prev_nodes) :
               p \in Range(ns) /\ t \in Range(o[p].next_nodes)
        /\ \A s \in Range(o[t].next_nodes) :
               s \in Range(ns) /\ t \in Range(o[s].prev_nodes)

\* C8: a rejected add_node call leaves the Plan unchanged: the task list,
\* the identifier counter and every task's duration and predecessor and
\* successor lists, so that every reference still is to a task of the list
\* and is mutual.
C8_RejectedAddLeavesPlanUnchanged ==
    [][(err = "none" /\ err' # "none") =>
           /\ nodes' = nodes
           /\ node_id' = node_id
           /\ \A t \in Tasks :
                  /\ objs'[t].duration = objs[t].duration
                  /\ objs'[t].prev_nodes = objs[t].prev_nodes
                  /\ objs'[t].next_nodes = objs[t].next_nodes
           /\ LinksResolve(objs', nodes')]_vars

\* C9: in the forward pass, each predecessor value a task is computed from
\* is that predecessor's final value of the pass, and no predecessor is
\* processed again after one of its dependents was computed.
C9_PredecessorsFinalWhenRead ==
    (Built /\ OnlySuccessfulAdds) =>
        \A i \in 1..Len(fwd_log) :
            \A k \in 1..Len(fwd_log[i].reads) :
                LET r == fwd_log[i].reads[k]
                IN  /\ r.ef = objs[r.parent].early_finish_time
                    /\ \A j \in (i + 1)..Len(fwd_log) :
                           fwd_log[j].node # r.parent

\* C10: after build(), freeFloat is the minimum earlyStart of the successors
\* minus the task's earlyFinish (0 without successors), and
\* 0 <= freeFloat <= totalFloat.
C10_FreeFloat ==
    (Built /\ OnlySuccessfulAdds) =>
        \A t \in Tasks :
            /\ objs[t].free_float =
                   (IF Succs(t) = {} THEN 0
                    ELSE SetMin({objs[s].early_start_time : s \in Succs(t)})
                             - objs[t].early_finish_time)
            /\ 0 <= objs[t].free_float
            /\ objs[t].free_float <= objs[t].total_float

C10_Witness ==
    /\ Built /\ OnlySuccessfulAdds
    /\ \E t \in Tasks : \E a, b \in Succs(t) :
           /\ objs[a].early_start_time < objs[b].early_start_time
           /\ objs[t].free_float = 0
    /\ \E t \in Tasks : objs[t].free_float > 0

====
